---- MODULE Spec2Model ----
(***************************************************************************)
(* State machine of the SearchBar component                                *)
(* (src/src/components/SearchBar.tsx): the three pieces of React state     *)
(* (search, selectedKey, localItems), the controlled props and their       *)
(* effects, the two data hooks, the three event handlers, the imperative   *)
(* reset handle, and the MutationObserver that strips the default          *)
(* highlight of the dropdown's first option.                               *)
(***************************************************************************)
EXTENDS Integers, Sequences, FiniteSets, TLC

VARIABLES
    phase,           \* "rendered" (first render done), "mounted", "unmounted"
    search,          \* useState: text of the input
    selectedKey,     \* useState: selected key
    localItems,      \* useState: PokemonName[] given to the dropdown
    valueProp,       \* props.value
    inputValueProp,  \* props.inputValue
    depValue,        \* dependency [props.value] seen by the last effect run
    depInputValue,   \* dependency [inputValue] seen by the last effect run
    parent,          \* what the owner does with onChange / onInputChange
    data,            \* usePokemonName(generationIDs, search).data
    PokemonIDs,      \* usePokemonIDByGeneration(generationIDs).data
    query,           \* arguments of the last usePokemonName call
    inflight,        \* name queries requested and not yet answered
    calls,           \* notifications sent by the last step, in order
    lastOp,          \* the operation that made the last step
    autocompleteRef, \* autocompleteRef.current is set
    observers,       \* number of connected MutationObservers
    listbox,         \* the [role="listbox"] node is in the container's subtree
    options,         \* the [role="option"] nodes of the listbox
    records,         \* MutationRecords queued for the observer callback
    timers,          \* pending setTimeout(removeFirstItemSelection, 0)
    highlight        \* the dropdown's own initial highlighting: "none", "pending", "done"

coreVars == <<phase, search, selectedKey, localItems, valueProp, inputValueProp,
              depValue, depInputValue, parent, data, PokemonIDs, query, inflight,
              calls, lastOp>>
domVars == <<autocompleteRef, observers, listbox, options, records, timers, highlight>>
vars == <<phase, search, selectedKey, localItems, valueProp, inputValueProp,
          depValue, depInputValue, parent, data, PokemonIDs, query, inflight,
          calls, lastOp, autocompleteRef, observers, listbox, options, records,
          timers, highlight>>

-----------------------------------------------------------------------------
(* Bounds of the model *)

\* name queries that may be awaiting their answer at the same time
MaxInflight == 2
\* options rendered in the dropdown
MaxOptions == 2
\* correction passes that may be pending at the same time
MaxTimers == 2
\* MutationRecords that may be queued for one observer callback
MaxRecords == 2

-----------------------------------------------------------------------------
(* Values *)

\* an optional prop or hook result: undefined, or a value
Undefined == [def |-> FALSE, v |-> <<>>]
Some(x) == [def |-> TRUE, v |-> x]

\* React.Key | null
Null == [t |-> "null", s |-> "", n |-> 0]
StrKey(s) == [t |-> "str", s |-> s, n |-> 0]
NumKey(n) == [t |-> "num", s |-> "", n |-> n]

Digits == <<"0", "1", "2", "3", "4", "5", "6", "7", "8", "9">>

RECURSIVE NumToString(_)
\* Number.prototype.toString() of a non-negative integer
NumToString(n) ==
    IF n < 10 THEN Digits[n + 1]
    ELSE NumToString(n \div 10) \o Digits[(n % 10) + 1]

\* key.toString()
KeyToString(key) == IF key.t = "num" THEN NumToString(key.n) ELSE key.s

\* if (key): null, "" and 0 are falsy
Truthy(key) ==
    CASE key.t = "null" -> FALSE
      [] key.t = "str" -> key.s # ""
      [] OTHER -> key.n # 0

\* props.value || "" : an absent or empty prop gives ""
OrEmpty(p) == IF p.def /\ p.v # "" THEN p.v ELSE ""

\* PokemonName
Name(id, name) == [pokemon_species_id |-> id, name |-> name]

\* Array.prototype.find: the index of the first of the matching elements, 0 if
\* there is none
FindIndex(hits) ==
    IF hits = {} THEN 0 ELSE CHOOSE i \in hits : \A j \in hits : i <= j

-----------------------------------------------------------------------------
(* The catalog behind the hooks of ../hooks/useFetch *)

Bulbasaur == Name(1, "bulbasaur")
Pikachu == Name(25, "pikachu")

\* texts the user types
TypedTexts == {"", "pika", "zz"}
\* every text the input can hold
Texts == TypedTexts \cup {"bulbasaur", "pikachu"}

\* fetchNamesForQuery: the records whose name matches the text, in catalog order
Results(text) ==
    CASE text = "" -> <<Bulbasaur, Pikachu>>
      [] text = "pika" -> <<Pikachu>>
      [] text = "pikachu" -> <<Pikachu>>
      [] text = "bulbasaur" -> <<Bulbasaur>>
      [] OTHER -> <<>>

\* fetchAllIdsForPartitions: the full catalog, or nothing for no partition
Catalogs == {<<>>, <<1, 25>>}

\* what the owner of the widget may pass
ValueProps == {Undefined, Some("25")}
InputValueProps == {Undefined, Some("pika")}
\* the owner supplies onChange and onInputChange; it either only listens, or
\* controls the widget by writing every notification back into the props
Parents == {"listener", "echo"}

\* keys the dropdown may hand to onSelectionChange
Keys == {Null, StrKey(""), NumKey(0), NumKey(1), StrKey("25"), StrKey("9")}

-----------------------------------------------------------------------------
(* Notifications *)

Call(fn, arg) == [fn |-> fn, arg |-> arg]

RECURSIVE EchoProp(_, _, _)
\* a controlling parent writes each notification back into its prop
EchoProp(cs, fn, p) ==
    IF cs = <<>> THEN p
    ELSE EchoProp(Tail(cs), fn, IF Head(cs).fn = fn THEN Some(Head(cs).arg) ELSE p)

Op(name, key) == [op |-> name, key |-> key]

-----------------------------------------------------------------------------
(* Rendering: the effects of lines 46-61 and the usePokemonName call of line 36 *)

\* an absent value prop does not clear the selection
SyncValue_keepsOnAbsent(k, vp) ==
    IF vp # depValue THEN (IF vp.def THEN vp.v ELSE k) ELSE k

\* the effect without its dependency list: it runs after every render
SyncValue_everyRender(k, vp) == OrEmpty(vp)

\* useEffect(() => setSelectedKey(props.value || ""), [props.value])
SyncValue(k, vp) == IF vp # depValue THEN OrEmpty(vp) ELSE k

\* useEffect(() => setSearch(inputValue || ""), [inputValue])
SyncInputValue(s, ip) == IF ip # depInputValue THEN OrEmpty(ip) ELSE s

\* if (data?.length): an empty answer keeps the previous list
SyncData_nonEmpty(items, d) == IF d.def /\ d.v # <<>> THEN d.v ELSE items

\* useEffect(() => { if (data) setLocalItems(data) }, [data])
SyncData(items, d) == IF d.def THEN d.v ELSE items

\* usePokemonName(generationIDs, search): a text not asked for in the previous
\* render is requested; until its answer arrives the hook shows the previous
\* answer or nothing
UsePokemonName(text) ==
    IF text = query
    THEN /\ UNCHANGED <<data, inflight>>
    ELSE /\ text \in inflight \/ Cardinality(inflight) < MaxInflight
         /\ inflight' = inflight \cup {text}
         /\ data' \in {data, Undefined}

\* the hook is not called again with the text the inputValue effect has set
Render_staleQuery(s, k, vp, ip) ==
    /\ valueProp' = vp
    /\ inputValueProp' = ip
    /\ selectedKey' = SyncValue(k, vp)
    /\ search' = SyncInputValue(s, ip)
    /\ depValue' = vp
    /\ depInputValue' = ip
    /\ query' = s
    /\ UsePokemonName(s)
    /\ localItems' = SyncData(localItems, data')

\* a render with state (s, k) and props (vp, ip), and the effects it triggers
Render(s, k, vp, ip) ==
    /\ valueProp' = vp
    /\ inputValueProp' = ip
    /\ selectedKey' = SyncValue(k, vp)
    /\ search' = SyncInputValue(s, ip)
    /\ depValue' = vp
    /\ depInputValue' = ip
    /\ query' = search'
    /\ UsePokemonName(search')
    /\ localItems' = SyncData(localItems, data')

\* the state updates (s, k) and notifications cs of one event handler, the
\* owner's reaction to the notifications, and the render that follows
Handle(op, s, k, cs) ==
    LET vp == IF parent = "echo" THEN EchoProp(cs, "onChange", valueProp)
              ELSE valueProp
        ip == IF parent = "echo" THEN EchoProp(cs, "onInputChange", inputValueProp)
              ELSE inputValueProp
    IN  /\ phase = "mounted"
        /\ lastOp' = op
        /\ calls' = cs
        /\ Render(s, k, vp, ip)
        /\ UNCHANGED <<phase, parent, PokemonIDs>>
        /\ UNCHANGED domVars

\* a handler that returns without updating state or notifying
Ignore(op) ==
    /\ phase = "mounted"
    /\ lastOp' = op
    /\ calls' = <<>>
    /\ UNCHANGED <<phase, search, selectedKey, localItems, valueProp, inputValueProp,
                   depValue, depInputValue, parent, data, PokemonIDs, query, inflight>>
    /\ UNCHANGED domVars

-----------------------------------------------------------------------------
(* Event handlers and the imperative handle *)

resetSearchBar_keepsKey ==
    Handle(Op("reset", Null), "", selectedKey, <<>>)

\* resetSearchBar (lines 39-44)
resetSearchBar ==
    Handle(Op("reset", Null), "", "", <<>>)

handleInputChange_noSet(value) ==
    Handle(Op("edit", StrKey(value)), search, selectedKey,
           <<Call("onInputChange", value)>>)

handleInputChange_clearsKey(value) ==
    Handle(Op("edit", StrKey(value)), value, "",
           <<Call("onInputChange", value)>>)

\* the owner is not told of the edit
handleInputChange_silent(value) ==
    Handle(Op("edit", StrKey(value)), value, selectedKey, <<>>)

\* handleInputChange (lines 153-156)
handleInputChange(value) ==
    Handle(Op("edit", StrKey(value)), value, selectedKey,
           <<Call("onInputChange", value)>>)

\* the selected name is notified but not written to the input
handleSelectionChange_noText(key) ==
    IF Truthy(key)
    THEN LET selectedId == KeyToString(key)
             i == FindIndex({j \in 1..Len(localItems) :
                     NumToString(localItems[j].pokemon_species_id) = selectedId})
         IN  IF i # 0
             THEN Handle(Op("select", key), search, selectedId,
                         <<Call("onChange", selectedId),
                           Call("onInputChange", localItems[i].name)>>)
             ELSE Handle(Op("select", key), search, selectedId,
                         <<Call("onChange", selectedId)>>)
    ELSE Ignore(Op("select", key))

\* a key without a record empties the input
handleSelectionChange_clearsText(key) ==
    IF Truthy(key)
    THEN LET selectedId == KeyToString(key)
             i == FindIndex({j \in 1..Len(localItems) :
                     NumToString(localItems[j].pokemon_species_id) = selectedId})
         IN  IF i # 0
             THEN Handle(Op("select", key), localItems[i].name, selectedId,
                         <<Call("onChange", selectedId),
                           Call("onInputChange", localItems[i].name)>>)
             ELSE Handle(Op("select", key), "", selectedId,
                         <<Call("onChange", selectedId), Call("onInputChange", "")>>)
    ELSE Ignore(Op("select", key))

\* no if (key): an empty key clears the selection
handleSelectionChange_noGuard(key) ==
    LET selectedId == KeyToString(key)
        i == FindIndex({j \in 1..Len(localItems) :
                NumToString(localItems[j].pokemon_species_id) = selectedId})
    IN  IF i # 0
        THEN Handle(Op("select", key), localItems[i].name, selectedId,
                    <<Call("onChange", selectedId),
                      Call("onInputChange", localItems[i].name)>>)
        ELSE Handle(Op("select", key), search, selectedId,
                    <<Call("onChange", selectedId)>>)

\* handleSelectionChange (lines 136-151)
handleSelectionChange(key) ==
    IF Truthy(key)
    THEN LET selectedId == KeyToString(key)
             i == FindIndex({j \in 1..Len(localItems) :
                     NumToString(localItems[j].pokemon_species_id) = selectedId})
         IN  IF i # 0
             THEN Handle(Op("select", key), localItems[i].name, selectedId,
                         <<Call("onChange", selectedId),
                           Call("onInputChange", localItems[i].name)>>)
             ELSE Handle(Op("select", key), search, selectedId,
                         <<Call("onChange", selectedId)>>)
    ELSE Ignore(Op("select", key))

\* no length check: an empty catalog notifies an empty pick
handleRandomPick_noLength(randomIndex) ==
    IF PokemonIDs.def /\ Len(PokemonIDs.v) > 0
    THEN /\ randomIndex \in 0..(Len(PokemonIDs.v) - 1)
         /\ LET randomPokemon == PokemonIDs.v[randomIndex + 1]
                i == IF data.def
                     THEN FindIndex({j \in 1..Len(data.v) :
                              data.v[j].pokemon_species_id = randomPokemon})
                     ELSE 0
            IN  IF i # 0
                THEN Handle(Op("random", Null), data.v[i].name, selectedKey,
                            <<Call("onChange", NumToString(randomPokemon)),
                              Call("onInputChange", data.v[i].name)>>)
                ELSE Handle(Op("random", Null), search, selectedKey,
                            <<Call("onChange", NumToString(randomPokemon))>>)
    ELSE /\ randomIndex = 0
         /\ IF PokemonIDs.def
            THEN Handle(Op("random", Null), search, selectedKey,
                        <<Call("onChange", "undefined")>>)
            ELSE Ignore(Op("random", Null))

\* handleRandomPick (lines 117-134), randomIndex = Math.floor(Math.random() * length)
handleRandomPick(randomIndex) ==
    IF PokemonIDs.def /\ Len(PokemonIDs.v) > 0
    THEN /\ randomIndex \in 0..(Len(PokemonIDs.v) - 1)
         /\ LET randomPokemon == PokemonIDs.v[randomIndex + 1]
                i == IF data.def
                     THEN FindIndex({j \in 1..Len(data.v) :
                              data.v[j].pokemon_species_id = randomPokemon})
                     ELSE 0
            IN  IF i # 0
                THEN Handle(Op("random", Null), data.v[i].name, selectedKey,
                            <<Call("onChange", NumToString(randomPokemon)),
                              Call("onInputChange", data.v[i].name)>>)
                ELSE Handle(Op("random", Null), search, selectedKey,
                            <<Call("onChange", NumToString(randomPokemon))>>)
    ELSE /\ randomIndex = 0
         /\ Ignore(Op("random", Null))

-----------------------------------------------------------------------------
(* The owner and the hooks *)

\* which of the two props a render changes
PropsChanged(vp, ip) ==
    CASE vp # valueProp /\ ip # inputValueProp -> StrKey("both")
      [] vp # valueProp -> StrKey("value")
      [] ip # inputValueProp -> StrKey("inputValue")
      [] OTHER -> Null

\* the owner renders the widget with props (vp, ip)
SetProps(vp, ip) ==
    /\ phase = "mounted"
    /\ lastOp' = Op("props", PropsChanged(vp, ip))
    /\ calls' = <<>>
    /\ Render(search, selectedKey, vp, ip)
    /\ UNCHANGED <<phase, parent, PokemonIDs>>
    /\ UNCHANGED domVars

\* the new list drops a selection it does not hold
Refresh_clearsStale(d) ==
    /\ localItems' = SyncData(localItems, d)
    /\ selectedKey' =
          IF d.def /\ \A j \in 1..Len(d.v) :
                        NumToString(d.v[j].pokemon_species_id) # selectedKey
          THEN "" ELSE selectedKey
    /\ search' = SyncInputValue(search, inputValueProp)
    /\ UNCHANGED <<valueProp, inputValueProp, depValue, depInputValue, query>>

\* the render that follows a change of the hook's data d: the effect of lines
\* 56-61 runs, the prop effects see their dependencies unchanged
Refresh(d) ==
    /\ localItems' = SyncData(localItems, d)
    /\ selectedKey' = SyncValue(selectedKey, valueProp)
    /\ search' = SyncInputValue(search, inputValueProp)
    /\ UNCHANGED <<valueProp, inputValueProp, depValue, depInputValue, query>>

\* only the answer to the latest request is shown, any other is dropped
DeliverNames_latestOnly(text) ==
    /\ phase = "mounted"
    /\ text \in inflight
    /\ inflight' = inflight \ {text}
    /\ data' = IF text = query THEN Some(Results(text)) ELSE data
    /\ Refresh(data')
    /\ lastOp' = Op("names", Null)
    /\ calls' = <<>>
    /\ UNCHANGED <<phase, parent, PokemonIDs>>
    /\ UNCHANGED domVars

\* the answer to a requested name query arrives, whichever request it answers
DeliverNames(text) ==
    /\ phase = "mounted"
    /\ text \in inflight
    /\ inflight' = inflight \ {text}
    /\ data' = Some(Results(text))
    /\ Refresh(data')
    /\ lastOp' = Op("names", Null)
    /\ calls' = <<>>
    /\ UNCHANGED <<phase, parent, PokemonIDs>>
    /\ UNCHANGED domVars

\* the full catalog arrives
DeliverIDs(ids) ==
    /\ phase = "mounted"
    /\ PokemonIDs # Some(ids)
    /\ PokemonIDs' = Some(ids)
    /\ lastOp' = Op("ids", Null)
    /\ calls' = <<>>
    /\ UNCHANGED <<phase, search, selectedKey, localItems, valueProp, inputValueProp,
                   depValue, depInputValue, parent, data, query, inflight>>
    /\ UNCHANGED domVars

-----------------------------------------------------------------------------
(* Mounting *)

\* the first render: useState initial values (lines 30-32) and the first hook calls
Init ==
    /\ phase = "rendered"
    /\ valueProp \in ValueProps
    /\ inputValueProp \in InputValueProps
    /\ parent = "listener"
    /\ search = OrEmpty(inputValueProp)
    /\ selectedKey = OrEmpty(valueProp)
    /\ localItems = <<>>
    /\ depValue = Undefined
    /\ depInputValue = Undefined
    /\ data = Undefined
    /\ PokemonIDs = Undefined
    /\ query = search
    /\ inflight = {search}
    /\ calls = <<>>
    /\ lastOp = Op("init", Null)
    /\ autocompleteRef = FALSE
    /\ observers = 0
    /\ listbox = FALSE
    /\ options = <<>>
    /\ records = <<>>
    /\ timers = 0
    /\ highlight = "none"

\* the observer effect of lines 64-115, run once after the first commit
InstallObserver(ref) == IF ref THEN observers + 1 ELSE observers

\* the commit of the first render: the ref is attached and every effect runs
Mount ==
    /\ phase = "rendered"
    /\ phase' = "mounted"
    /\ autocompleteRef' = TRUE
    /\ observers' = InstallObserver(autocompleteRef')
    /\ selectedKey' = OrEmpty(valueProp)
    /\ search' = OrEmpty(inputValueProp)
    /\ depValue' = valueProp
    /\ depInputValue' = inputValueProp
    /\ localItems' = SyncData(localItems, data)
    /\ lastOp' = Op("mount", Null)
    /\ calls' = <<>>
    /\ UNCHANGED <<valueProp, inputValueProp, parent, data, PokemonIDs, query, inflight>>
    /\ UNCHANGED <<listbox, options, records, timers, highlight>>

\* the cleanup is missing: the observer stays connected
Unmount_noCleanup ==
    /\ phase = "mounted"
    /\ phase' = "unmounted"
    /\ autocompleteRef' = FALSE
    /\ observers' = observers
    /\ records' = <<>>
    /\ lastOp' = Op("unmount", Null)
    /\ calls' = <<>>
    /\ UNCHANGED <<search, selectedKey, localItems, valueProp, inputValueProp,
                   depValue, depInputValue, parent, data, PokemonIDs, query, inflight>>
    /\ highlight' = "none"
    /\ UNCHANGED <<listbox, options, timers>>

\* unmount: the ref is cleared and the effect cleanup of lines 111-113 runs; the
\* container is detached with its subtree, pending timers are not cleared
Unmount ==
    /\ phase = "mounted"
    /\ phase' = "unmounted"
    /\ autocompleteRef' = FALSE
    /\ observers' = 0
    /\ records' = <<>>
    /\ UNCHANGED <<listbox, options>>
    /\ lastOp' = Op("unmount", Null)
    /\ calls' = <<>>
    /\ UNCHANGED <<search, selectedKey, localItems, valueProp, inputValueProp,
                   depValue, depInputValue, parent, data, PokemonIDs, query, inflight>>
    /\ highlight' = "none"
    /\ UNCHANGED timers

-----------------------------------------------------------------------------
(* The dropdown in the observed container, and the observer of lines 64-115 *)

\* a [role="option"] element: its aria-selected attribute and its "selected" class
Option(aria, cls) == [ariaSelected |-> aria, selectedClass |-> cls]

\* a childList MutationRecord: the roles of its addedNodes
Record(added) == [type |-> "childList", addedNodes |-> added]

\* lines 84-102: one setTimeout for every record that adds a node whose role is listbox
RECURSIVE Scheduled(_)
Scheduled(mutations) ==
    IF mutations = <<>> THEN 0
    ELSE (IF /\ Head(mutations).type = "childList"
             /\ Len(Head(mutations).addedNodes) > 0
             /\ \E i \in 1..Len(Head(mutations).addedNodes) :
                    Head(mutations).addedNodes[i] = "listbox"
          THEN 1 ELSE 0) + Scheduled(Tail(mutations))

\* the attribute is reset, the class is left
Deselect_attributeOnly(option) == Option("false", option.selectedClass)

\* lines 71-78: option.setAttribute("aria-selected", "false") and classList.remove
Deselect(option) == Option("false", FALSE)

\* the listbox is looked up without going through the ref
removeFirstItemSelection_ignoresRef(ref, box, opts) ==
    IF box THEN [i \in 1..Len(opts) |-> Deselect(opts[i])] ELSE opts

\* removeFirstItemSelection (lines 66-80)
removeFirstItemSelection(ref, box, opts) ==
    IF ref /\ box THEN [i \in 1..Len(opts) |-> Deselect(opts[i])] ELSE opts

DomStep(op) ==
    /\ lastOp' = op
    /\ calls' = <<>>
    /\ UNCHANGED <<phase, search, selectedKey, localItems, valueProp, inputValueProp,
                   depValue, depInputValue, parent, data, PokemonIDs, query, inflight>>

\* the dropdown opens: the listbox and n options are inserted, either as an added
\* node of its own or inside an added wrapper element; option sel (if any) is
\* the one of the selected key and is rendered as selected
InsertListbox(n, sel, role) ==
    /\ phase = "mounted"
    /\ ~listbox
    /\ Len(records) < MaxRecords
    /\ listbox' = TRUE
    /\ options' = [i \in 1..n |-> IF i = sel THEN Option("true", FALSE)
                                    ELSE Option("false", FALSE)]
    /\ records' = IF observers > 0 THEN Append(records, Record(<<role>>)) ELSE records
    /\ highlight' = "pending"
    /\ DomStep(Op("insert", Null))
    /\ UNCHANGED <<autocompleteRef, observers, timers>>

\* the dropdown's own initial state: its first option is marked selected
WidgetHighlight(cls) ==
    /\ phase = "mounted"
    /\ highlight = "pending"
    /\ highlight' = "done"
    /\ options' = [i \in 1..Len(options) |->
                      IF i = 1 THEN Option("true", cls) ELSE options[i]]
    /\ DomStep(Op("highlight", Null))
    /\ UNCHANGED <<autocompleteRef, observers, listbox, records, timers>>

\* the dropdown closes: the listbox is removed
RemoveListbox ==
    /\ phase = "mounted"
    /\ listbox
    /\ Len(records) < MaxRecords
    /\ listbox' = FALSE
    /\ options' = <<>>
    /\ records' = IF observers > 0 THEN Append(records, Record(<<>>)) ELSE records
    /\ highlight' = "none"
    /\ DomStep(Op("remove", Null))
    /\ UNCHANGED <<autocompleteRef, observers, timers>>

\* the callback corrects the options itself instead of scheduling the pass
ObserverCallback_sync ==
    /\ observers > 0
    /\ records # <<>>
    /\ options' = IF Scheduled(records) > 0
                  THEN removeFirstItemSelection(autocompleteRef, listbox, options)
                  ELSE options
    /\ records' = <<>>
    /\ DomStep(Op("observe", Null))
    /\ UNCHANGED <<autocompleteRef, observers, listbox, timers, highlight>>

\* the MutationObserver callback (lines 83-103), a microtask with the queued records
ObserverCallback ==
    /\ observers > 0
    /\ records # <<>>
    /\ timers + Scheduled(records) <= MaxTimers
    /\ timers' = timers + Scheduled(records)
    /\ records' = <<>>
    /\ DomStep(Op("observe", Null))
    /\ UNCHANGED <<autocompleteRef, observers, listbox, options, highlight>>

\* a pending setTimeout(removeFirstItemSelection, 0) fires, in a later task than
\* the dropdown's own synchronous work
TimerFires ==
    /\ timers > 0
    /\ highlight # "pending"
    /\ timers' = timers - 1
    /\ options' = removeFirstItemSelection(autocompleteRef, listbox, options)
    /\ DomStep(Op("correct", Null))
    /\ UNCHANGED <<autocompleteRef, observers, listbox, records, highlight>>

-----------------------------------------------------------------------------
(* The widget as a state machine *)

Next ==
    \/ Mount
    \/ Unmount
    \/ resetSearchBar
    \/ \E value \in TypedTexts : handleInputChange(value)
    \/ \E key \in Keys : handleSelectionChange(key)
    \/ \E randomIndex \in 0..1 : handleRandomPick(randomIndex)
    \/ \E vp \in ValueProps, ip \in InputValueProps : SetProps(vp, ip)
    \/ \E text \in Texts : DeliverNames(text)
    \/ \E ids \in Catalogs : DeliverIDs(ids)

Spec == Init /\ [][Next]_vars

\* the same widget under an owner that controls it
InitEcho ==
    /\ phase = "rendered"
    /\ valueProp \in ValueProps
    /\ inputValueProp \in InputValueProps
    /\ parent = "echo"
    /\ search = OrEmpty(inputValueProp)
    /\ selectedKey = OrEmpty(valueProp)
    /\ localItems = <<>>
    /\ depValue = Undefined
    /\ depInputValue = Undefined
    /\ data = Undefined
    /\ PokemonIDs = Undefined
    /\ query = search
    /\ inflight = {search}
    /\ calls = <<>>
    /\ lastOp = Op("init", Null)
    /\ autocompleteRef = FALSE
    /\ observers = 0
    /\ listbox = FALSE
    /\ options = <<>>
    /\ records = <<>>
    /\ timers = 0
    /\ highlight = "none"

\* the widget under an owner that writes every notification back into the
\* props and changes them in no other way, and that never resets the widget
NextEcho ==
    \/ Mount
    \/ \E value \in TypedTexts : handleInputChange(value)
    \/ \E key \in Keys : handleSelectionChange(key)
    \/ \E randomIndex \in 0..1 : handleRandomPick(randomIndex)
    \/ \E text \in Texts : DeliverNames(text)
    \/ \E ids \in Catalogs : DeliverIDs(ids)

SpecEcho == InitEcho /\ [][NextEcho]_vars

\* the dropdown and the highlight correction alone
NextDom ==
    \/ Mount
    \/ Unmount
    \/ \E n \in 0..MaxOptions, sel \in 0..MaxOptions, role \in {"listbox", "div"} :
           sel <= n /\ InsertListbox(n, sel, role)
    \/ \E cls \in BOOLEAN : WidgetHighlight(cls)
    \/ RemoveListbox
    \/ ObserverCallback
    \/ TimerFires

SpecDom == Init /\ [][NextDom]_vars

-----------------------------------------------------------------------------
(* Properties *)

\* the records of the candidates whose identifier is exactly id
RecordsOf(items, id) ==
    {i \in 1..Len(items) : NumToString(items[i].pokemon_species_id) = id}

\* the identifiers of the full catalog, as the strings onChange receives
CatalogKeys(ids) == {NumToString(ids[i]) : i \in 1..Len(ids)}

\* C1: right after every handleInputChange(value) the input text is that value,
\* whatever texts were typed before
C1_LastEditWins ==
    lastOp.op = "edit" => search = lastOp.key.s

\* C1 witness: "zz" was typed after "pika" had been typed and requested
C1_Witness ==
    /\ lastOp = Op("edit", StrKey("zz"))
    /\ search = "zz"
    /\ "pika" \in inflight
    /\ inputValueProp = Undefined

\* C2: selecting a non-empty key that has a record in the candidates sets
\* selectedKey to the key and the input text to the record's name, and sends
\* onChange(key) and then onInputChange(name), once each
C2_SelectKnown ==
    [][(/\ lastOp'.op = "select"
        /\ Truthy(lastOp'.key)
        /\ RecordsOf(localItems, KeyToString(lastOp'.key)) # {})
       => /\ selectedKey' = KeyToString(lastOp'.key)
          /\ \A i \in RecordsOf(localItems, KeyToString(lastOp'.key)) :
                /\ search' = localItems[i].name
                /\ calls' = <<Call("onChange", KeyToString(lastOp'.key)),
                              Call("onInputChange", localItems[i].name)>>]_vars

\* C2 witness: the numeric key 1 was selected from a list that holds bulbasaur
C2_Witness ==
    /\ lastOp = Op("select", NumKey(1))
    /\ selectedKey = "1"
    /\ search = "bulbasaur"
    /\ localItems = <<Bulbasaur, Pikachu>>
    /\ calls = <<Call("onChange", "1"), Call("onInputChange", "bulbasaur")>>

\* C3: selecting a non-empty key that has no record in the candidates sets
\* selectedKey and sends onChange(key) only; the input text stays
C3_SelectUnknown ==
    [][(/\ lastOp'.op = "select"
        /\ Truthy(lastOp'.key)
        /\ RecordsOf(localItems, KeyToString(lastOp'.key)) = {})
       => /\ selectedKey' = KeyToString(lastOp'.key)
          /\ search' = search
          /\ calls' = <<Call("onChange", KeyToString(lastOp'.key))>>]_vars

\* C3 witness: key 9, which no record carries, was selected while text was shown
C3_Witness ==
    /\ lastOp = Op("select", StrKey("9"))
    /\ selectedKey = "9"
    /\ search = "pika"
    /\ localItems = <<Pikachu>>
    /\ calls = <<Call("onChange", "9")>>

\* C4: selecting an empty or null key changes nothing and notifies nobody, and
\* no selection step ever empties a non-empty selectedKey
C4_SelectEmpty ==
    [][lastOp'.op = "select"
       => /\ ~Truthy(lastOp'.key)
             => /\ UNCHANGED <<search, selectedKey, localItems>>
                /\ calls' = <<>>
          /\ selectedKey # "" => selectedKey' # ""]_vars

\* C4 witness: null was selected while key 25 was selected
C4_Witness ==
    /\ lastOp = Op("select", Null)
    /\ selectedKey = "25"
    /\ search = "pikachu"
    /\ valueProp = Undefined

\* C5: a random pick from a non-empty catalog sets selectedKey to an identifier
\* of the catalog and sends onChange with that identifier
C5_RandomSelects ==
    [][(/\ lastOp'.op = "random"
        /\ PokemonIDs.def
        /\ Len(PokemonIDs.v) > 0)
       => /\ selectedKey' \in CatalogKeys(PokemonIDs.v)
          /\ calls' # <<>>
          /\ calls'[1] = Call("onChange", selectedKey')]_vars

\* C6: a random pick with an empty or unloaded catalog changes nothing and
\* notifies nobody
C6_RandomEmpty ==
    [][(/\ lastOp'.op = "random"
        /\ ~(PokemonIDs.def /\ Len(PokemonIDs.v) > 0))
       => /\ UNCHANGED <<search, selectedKey, localItems>>
          /\ calls' = <<>>]_vars

\* C6 witness: a random pick was made on a loaded, empty catalog
C6_Witness ==
    /\ lastOp.op = "random"
    /\ PokemonIDs = Some(<<>>)
    /\ selectedKey = "25"
    /\ search = "pikachu"

\* C7: resetSearchBar empties the input text and selectedKey whatever the state
\* and the props are, keeps the candidates and notifies nobody
C7_Reset ==
    [][lastOp'.op = "reset"
       => /\ search' = ""
          /\ selectedKey' = ""
          /\ localItems' = localItems
          /\ calls' = <<>>]_vars

\* C7 witness: a reset under props value = "25", inputValue = "pika"
C7_Witness ==
    /\ lastOp.op = "reset"
    /\ valueProp = Some("25")
    /\ inputValueProp = Some("pika")
    /\ localItems # <<>>
    /\ search = ""
    /\ selectedKey = ""

\* C8: a render that changes props.value sets selectedKey to it ("" if absent),
\* one that changes inputValue sets the input text to it ("" if absent), each
\* leaves the other state alone when its own prop did not change, and a render
\* by the owner sends no notification
C8_PropSync ==
    [][/\ valueProp' # valueProp
          => selectedKey' = (IF valueProp'.def THEN valueProp'.v ELSE "")
       /\ inputValueProp' # inputValueProp
          => search' = (IF inputValueProp'.def THEN inputValueProp'.v ELSE "")
       /\ lastOp'.op = "props"
          => /\ valueProp' = valueProp => selectedKey' = selectedKey
             /\ inputValueProp' = inputValueProp => search' = search
             /\ calls' = <<>>]_vars

\* C8 witness: props.value alone became "25" while the input held typed text
C8_Witness ==
    /\ lastOp = Op("props", StrKey("value"))
    /\ valueProp = Some("25")
    /\ selectedKey = "25"
    /\ inputValueProp = Some("pika")
    /\ search = "zz"

C10_EditFrame ==
    [][lastOp'.op = "edit"
       => /\ selectedKey' = selectedKey
          /\ localItems' = localItems
          /\ calls' = <<Call("onInputChange", lastOp'.key.s)>>]_vars

\* C10 witness: text was typed while key 25 was selected
C10_Witness ==
    /\ lastOp = Op("edit", StrKey("zz"))
    /\ selectedKey = "25"
    /\ valueProp = Undefined
    /\ localItems = <<Pikachu>>
    /\ calls = <<Call("onInputChange", "zz")>>

\* C11: a random pick from a non-empty catalog resolves the name of the drawn
\* identifier in the candidates: with a record of that identifier in the
\* candidates the input text becomes its name and onInputChange(name) is sent,
\* without one the input text stays and no onInputChange is sent
C11_RandomResolves ==
    [][(/\ lastOp'.op = "random"
        /\ PokemonIDs.def
        /\ Len(PokemonIDs.v) > 0)
       => /\ calls' # <<>>
          /\ calls'[1].fn = "onChange"
          /\ LET hits == RecordsOf(localItems, calls'[1].arg)
             IN  /\ hits = {} => search' = search /\ Len(calls') = 1
                 /\ \A i \in hits :
                       /\ search' = localItems[i].name
                       /\ calls' = <<calls'[1],
                                     Call("onInputChange", localItems[i].name)>>]_vars

\* C12: a prop effect runs only when its own prop changes: the render after an
\* internal update (select, edit, reset) keeps that update while the prop is
\* the same, and a render by the owner or by a hook keeps selectedKey while
\* props.value is the same and the input text while inputValue is the same
C12_OwnPropOnly ==
    [][/\ valueProp' = valueProp
          => selectedKey' =
               (CASE lastOp'.op = "select" /\ Truthy(lastOp'.key)
                       -> KeyToString(lastOp'.key)
                  [] lastOp'.op = "reset" -> ""
                  [] OTHER -> selectedKey)
       /\ (inputValueProp' = inputValueProp /\ lastOp'.op \notin {"select", "random"})
          => search' =
               (CASE lastOp'.op = "edit" -> lastOp'.key.s
                  [] lastOp'.op = "reset" -> ""
                  [] OTHER -> search)]_vars

\* C12 witness: the owner rendered again with the same props while both states
\* differed from them
C12_Witness ==
    /\ lastOp = Op("props", Null)
    /\ valueProp = Some("25")
    /\ selectedKey = "9"
    /\ inputValueProp = Some("pika")
    /\ search = "zz"

\* C13: when the answer to a name query arrives, the candidates are exactly the
\* delivered sequence
C13_Replaced ==
    [][lastOp'.op = "names"
       => \A text \in inflight \ inflight' : localItems' = Results(text)]_vars

\* C13 witness: an empty answer replaced a list from which pikachu had been chosen
C13_Witness ==
    /\ lastOp.op = "names"
    /\ localItems = <<>>
    /\ search = "pikachu"
    /\ selectedKey = "25"
    /\ inputValueProp = Undefined

\* C14: the arrival of an answer changes neither selectedKey nor the input text
\* and notifies nobody, whether or not the new candidates hold the selected key
C14_RefreshFrame ==
    [][lastOp'.op = "names"
       => /\ selectedKey' = selectedKey
          /\ search' = search
          /\ calls' = <<>>]_vars

\* C14 witness: key 25 is still selected after a list without it has arrived
C14_Witness ==
    /\ lastOp.op = "names"
    /\ selectedKey = "25"
    /\ localItems = <<Bulbasaur>>
    /\ valueProp = Undefined

\* C15: the text of the name query of the last render is the input text
C15_QueryIsSearch ==
    query = search

\* C15 witness: the inputValue prop changed the input text and the new text
\* was requested
C15_Witness ==
    /\ lastOp = Op("props", StrKey("inputValue"))
    /\ search = "pika"
    /\ query = "pika"
    /\ "pika" \in inflight
    /\ localItems = <<>>

\* C16: no step but the arrival of its answer removes a request, and an answer
\* to a request that is not the current one overwrites the candidates all the same
C16_NoCancelNoOrder ==
    [][/\ lastOp'.op # "names" => inflight \subseteq inflight'
       /\ lastOp'.op = "names"
          => \A text \in inflight \ inflight' :
                text # search => localItems' = Results(text)]_vars

\* C16 witness: every answer has arrived and the candidates are those of "pika"
\* while the input text is "zz"
C16_Witness ==
    /\ phase = "mounted"
    /\ inflight = {}
    /\ search = "zz"
    /\ localItems = Results("pika")
    /\ localItems # Results(search)

\* C17: the observer callback changes no option and only schedules passes; the
\* options are changed by the dropdown itself or by a correction pass, and a
\* pass changes them only after the dropdown's initial highlighting
C17_Deferred ==
    [][/\ lastOp'.op = "observe"
          => /\ options' = options
             /\ listbox' = listbox
             /\ timers' >= timers
       /\ options' # options
          => /\ lastOp'.op \in {"insert", "highlight", "remove", "correct"}
             /\ lastOp'.op = "correct" => highlight = "done"]_vars

\* C17 witness: the callback has scheduled a pass and the option rendered as
\* selected is untouched, the dropdown's own highlighting still to come
C17_Witness ==
    /\ lastOp.op = "observe"
    /\ timers = 1
    /\ highlight = "pending"
    /\ Len(options) >= 1
    /\ options[1].ariaSelected = "true"

\* C18: one observer is connected from mount to unmount, none before and none
\* after, whatever renders and state updates happen in between
C18_OneObserver ==
    /\ observers <= 1
    /\ phase = "rendered" => observers = 0
    /\ phase = "mounted" => observers = 1
    /\ phase = "unmounted" => observers = 0

\* C18 witness: the widget was unmounted after selections and edits
C18_Witness ==
    /\ phase = "unmounted"
    /\ observers = 0
    /\ selectedKey = "25"
    /\ search = "zz"

\* C19: under an owner that echoes every notification into the props,
\* selectedKey is the value prop and the input text is the inputValue prop
\* ("" for an absent prop)
C19_EchoAgrees ==
    /\ selectedKey = (IF valueProp.def THEN valueProp.v ELSE "")
    /\ search = (IF inputValueProp.def THEN inputValueProp.v ELSE "")

\* C19 witness: a random pick under an echoing owner, its name resolved
C19_Witness ==
    /\ parent = "echo"
    /\ lastOp.op = "random"
    /\ calls = <<Call("onChange", "1"), Call("onInputChange", "bulbasaur")>>
    /\ valueProp = Some("1")
    /\ selectedKey = "1"
    /\ search = "bulbasaur"

\* C20: unmount leaves the pending correction passes pending, and a pass that
\* runs after unmount changes no option
C20_LatePass ==
    [][/\ lastOp'.op = "unmount" => timers' = timers
       /\ (lastOp'.op = "correct" /\ phase = "unmounted")
          => /\ options' = options
             /\ listbox' = listbox
             /\ timers' = timers - 1]_vars

\* C20 witness: a pass has run after unmount and the detached option is still
\* marked
C20_Witness ==
    /\ phase = "unmounted"
    /\ lastOp.op = "correct"
    /\ listbox
    /\ Len(options) >= 1
    /\ options[1].ariaSelected = "true"

====
